---- MODULE Spec2Model ----
(***************************************************************************)
(* Model of the Chuangmi IR codec of miio/chuangmi_ir.py:                  *)
(* ChuangmiIr.pronto_to_raw (Pronto Hex text -> base64 signal + frequency) *)
(* with the construct layouts Pronto, ProntoBurstPair and ChuangmiIrSignal.*)
(* Text is a sequence of one-character strings, binary data a sequence of  *)
(* bytes 0..255.  One call of pronto_to_raw is followed statement by       *)
(* statement; the blob it returns is then parsed with ChuangmiIrSignal.    *)
(***************************************************************************)
EXTENDS Integers, Sequences, FiniteSets, TLC

\* ------------------------------------------------------------------------
\* Bounds of the explored inputs
\* ------------------------------------------------------------------------
MaxIntroLen == 5
MaxRepeatLen == 4
MaxRepeats == 2
MaxStoredEdgeCount == 4

\* ------------------------------------------------------------------------
\* Program constants
\* ------------------------------------------------------------------------
\* Const(0xa567, Int16ul)
Magic == 42343
\* Array(16, Int32ul)
TableSlots == 16
\* BitsInteger(4)
IndexBits == 4
\* this._ticks * 0.241246, as millionths of a microsecond per tick
TickPicos == 241246
\* 1000000 / this.modulation_period
Million == 1000000

\* ------------------------------------------------------------------------
\* Generic helpers
\* ------------------------------------------------------------------------
RECURSIVE Pow2(_)
Pow2(n) == IF n = 0 THEN 1 ELSE 2 * Pow2(n - 1)

Max(a, b) == IF a > b THEN a ELSE b

\* Python: seq * n (an n <= 0 gives the empty list)
RECURSIVE Rep(_, _)
Rep(s, n) == IF n <= 0 THEN << >> ELSE s \o Rep(s, n - 1)

RECURSIVE Flatten(_)
Flatten(ss) == IF ss = << >> THEN << >> ELSE Head(ss) \o Flatten(Tail(ss))

Range(s) == {s[i] : i \in 1..Len(s)}

\* ------------------------------------------------------------------------
\* Exceptions
\* ------------------------------------------------------------------------
NoError == [type |-> "none", msg |-> "", cause |-> "none"]

Raise(t, m, c) == [type |-> t, msg |-> m, cause |-> c]

\* ------------------------------------------------------------------------
\* The caller's Pronto Hex text
\* ------------------------------------------------------------------------
HexDigits == <<"0", "1", "2", "3", "4", "5", "6", "7",
               "8", "9", "A", "B", "C", "D", "E", "F">>

LowerHexDigits == <<"0", "1", "2", "3", "4", "5", "6", "7",
                    "8", "9", "a", "b", "c", "d", "e", "f">>

\* four hex digits of a 16-bit word, the last one in lower case
Hex4(w) == << HexDigits[((w \div 4096) % 16) + 1], HexDigits[((w \div 256) % 16) + 1],
              HexDigits[((w \div 16) % 16) + 1], LowerHexDigits[(w % 16) + 1] >>

Markers == {0, 1, 256}
Ticks == {0, 1, 109}
Moduli == {1, 16, 17}
Slacks == {-1, 0}
Forms == {"spaced", "packed", "nonhex"}

Inputs == [marker : Markers, ticks : Ticks,
           intro_len : 0..MaxIntroLen, repeat_len : 0..MaxRepeatLen,
           slack : Slacks, modulus : Moduli, form : Forms,
           repeats : -1..MaxRepeats]

\* the burst words present in the text: slack -1 drops the last declared word
BodyLen(in) == Max(0, 2 * (in.intro_len + in.repeat_len) + in.slack)

BodyWord(in, i) == (i - 1) % in.modulus

Words(in) == << in.marker, in.ticks, in.intro_len, in.repeat_len >>
             \o [i \in 1..BodyLen(in) |-> BodyWord(in, i)]

Spaced(ws) == Flatten([i \in 1..Len(ws) |->
                        IF i = 1 THEN Hex4(ws[i]) ELSE <<" ">> \o Hex4(ws[i])])

Packed(ws) == Flatten([i \in 1..Len(ws) |-> Hex4(ws[i])])

ProntoText(in) ==
    CASE in.form = "spaced" -> Spaced(Words(in))
      [] in.form = "packed" -> Packed(Words(in))
      [] in.form = "nonhex" -> <<"g">> \o Tail(Spaced(Words(in)))

\* ------------------------------------------------------------------------
\* bytearray.fromhex
\* ------------------------------------------------------------------------
IsHex(c) == c \in Range(HexDigits) \cup Range(LowerHexDigits)

HexVal(c) == CHOOSE v \in 0..15 : HexDigits[v + 1] = c \/ LowerHexDigits[v + 1] = c

RECURSIVE FromHexAt(_, _, _)
FromHexAt(text, i, acc) ==
    IF i > Len(text) THEN [ok |-> TRUE, bytes |-> acc]
    ELSE IF text[i] = " " THEN FromHexAt(text, i + 1, acc)
    ELSE IF i + 1 <= Len(text) /\ IsHex(text[i]) /\ IsHex(text[i + 1])
         THEN FromHexAt(text, i + 2, Append(acc, 16 * HexVal(text[i]) + HexVal(text[i + 1])))
         ELSE [ok |-> FALSE, bytes |-> << >>]

FromHex(text) == FromHexAt(text, 1, << >>)

\* ------------------------------------------------------------------------
\* construct integer fields (off is the number of bytes already consumed)
\* ------------------------------------------------------------------------
Int16ubParse(b, off) == 256 * b[off + 1] + b[off + 2]

Int16ulParse(b, off) == b[off + 1] + 256 * b[off + 2]

Int32ulParse(b, off) == b[off + 1] + 256 * b[off + 2] + 65536 * b[off + 3]
                        + 16777216 * b[off + 4]

Int16ulBuild(v) == << v % 256, (v \div 256) % 256 >>

Int32ulBuild(v) == << v % 256, (v \div 256) % 256, (v \div 65536) % 256,
                      (v \div 16777216) % 256 >>

\* ------------------------------------------------------------------------
\* Pronto and ProntoBurstPair
\* ------------------------------------------------------------------------
\* ProntoPulseAdapter._decode: int(obj * context._.modulation_period)
\* with modulation_period = ticks * 0.241246.  The exact quotient and the
\* floating-point product have the same integer part unless obj * ticks is
\* a multiple of 500000, which no explored input reaches.
ProntoPulseDecode(obj, ticks) == (obj * ticks * TickPicos) \div Million

RECURSIVE DivDigits(_, _, _, _, _)
DivDigits(digits, i, rem, quot, d) ==
    IF i > Len(digits) THEN quot
    ELSE DivDigits(digits, i + 1, (rem * 10 + digits[i]) % d,
                   quot * 10 + ((rem * 10 + digits[i]) \div d), d)

\* floor(2 * 10^12 / d) by long division: the dividend exceeds the integers
TwiceMillionSquaredDiv(d) ==
    DivDigits(<<2>> \o [i \in 1..12 |-> 0], 1, 0, 0, d)

\* the frequency cut to an integer without rounding
RoundedFrequencyTruncated(ticks) == TwiceMillionSquaredDiv(ticks * TickPicos) \div 2

\* int(round(pronto_data.frequency)) where frequency
\* = 1000000 / (ticks * 0.241246) = 10^12 / (ticks * 241246); the quotient
\* is never half an integer (241246 = 2 * 120623 does not divide 2 * 10^12),
\* so round-half-even and round-half-up agree
RoundedFrequency(ticks) == (TwiceMillionSquaredDiv(ticks * TickPicos) + 1) \div 2

\* the marker read as a single byte
MarkerOkLowByte(w) == w % 256 = 0

\* Const(0, Int16ub)
MarkerOk(w) == w = 0

ProntoBurstPairParse(b, off, ticks) ==
    [pulse |-> ProntoPulseDecode(Int16ubParse(b, off), ticks),
     gap   |-> ProntoPulseDecode(Int16ubParse(b, off + 2), ticks)]

ProntoFail(c) == [ok |-> FALSE, cause |-> c, ticks |-> 0, intro |-> << >>,
                  repeat |-> << >>, frequency |-> 0]

\* Pronto.parse
ProntoParse(b) ==
    IF Len(b) < 2 THEN ProntoFail("StreamError")
    ELSE IF ~MarkerOk(Int16ubParse(b, 0)) THEN ProntoFail("ConstError")
    ELSE IF Len(b) < 4 THEN ProntoFail("StreamError")
    ELSE IF Int16ubParse(b, 2) = 0 THEN ProntoFail("ZeroDivisionError")
    ELSE IF Len(b) < 8 THEN ProntoFail("StreamError")
    ELSE LET ticks      == Int16ubParse(b, 2)
             intro_len  == Int16ubParse(b, 4)
             repeat_len == Int16ubParse(b, 6)
         IN IF Len(b) < 8 + 4 * (intro_len + repeat_len)
            THEN ProntoFail("StreamError")
            ELSE [ok |-> TRUE, cause |-> "none", ticks |-> ticks,
                  intro  |-> [i \in 1..intro_len |->
                                ProntoBurstPairParse(b, 8 + 4 * (i - 1), ticks)],
                  repeat |-> [i \in 1..repeat_len |->
                                ProntoBurstPairParse(b, 8 + 4 * (intro_len + i - 1), ticks)],
                  frequency |-> RoundedFrequency(ticks)]

\* ------------------------------------------------------------------------
\* ChuangmiIrSignal
\* ------------------------------------------------------------------------
\* the edge count without the - 1
EdgeCountRebuildEven(n) == n * 2

\* Rebuild(Int16ul, len_(this.edge_pairs) * 2 - 1)
EdgeCountRebuild(n) == n * 2 - 1

\* Array((this.edge_count + 1) // 2, ...)
EdgePairCount(edge_count) == (edge_count + 1) \div 2

\* the two nibbles in the other order
EdgePairBuildSwapped(p) == p.pulse * Pow2(IndexBits) + p.gap

\* BitStruct('gap' / BitsInteger(4), 'pulse' / BitsInteger(4)): gap is the
\* high nibble
EdgePairBuild(p) == p.gap * Pow2(IndexBits) + p.pulse

EdgePairParse(byte) == [pulse |-> byte % Pow2(IndexBits), gap |-> byte \div Pow2(IndexBits)]

BuildFail(c) == [ok |-> FALSE, cause |-> c, bytes |-> << >>]

\* ChuangmiIrSignal.build({'times_index': ..., 'edge_pairs': ...})
ChuangmiIrSignalBuild(times_index, edge_pairs) ==
    LET edge_count == EdgeCountRebuild(Len(edge_pairs))
    IN IF edge_count < 0 \/ edge_count >= Pow2(16) THEN BuildFail("FormatFieldError")
       ELSE IF Len(times_index) # TableSlots THEN BuildFail("RangeError")
       ELSE IF Len(edge_pairs) # EdgePairCount(edge_count) THEN BuildFail("RangeError")
       ELSE IF \E i \in 1..Len(edge_pairs) :
                  \/ edge_pairs[i].gap >= Pow2(IndexBits)
                  \/ edge_pairs[i].pulse >= Pow2(IndexBits)
            THEN BuildFail("IntegerError")
       ELSE [ok |-> TRUE, cause |-> "none",
             bytes |-> Int16ulBuild(Magic) \o Int16ulBuild(edge_count)
                       \o Flatten([i \in 1..TableSlots |-> Int32ulBuild(times_index[i])])
                       \o [i \in 1..Len(edge_pairs) |-> EdgePairBuild(edge_pairs[i])]]

SignalFail(c) == [ok |-> FALSE, cause |-> c, edge_count |-> 0,
                  times_index |-> << >>, edge_pairs |-> << >>]

\* ChuangmiIrSignal.parse
ChuangmiIrSignalParse(b) ==
    IF Len(b) < 2 THEN SignalFail("StreamError")
    ELSE IF Int16ulParse(b, 0) # Magic THEN SignalFail("ConstError")
    ELSE IF Len(b) < 4 + 4 * TableSlots THEN SignalFail("StreamError")
    ELSE LET edge_count == Int16ulParse(b, 2)
             n == EdgePairCount(edge_count)
         IN IF Len(b) < 4 + 4 * TableSlots + n THEN SignalFail("StreamError")
            ELSE [ok |-> TRUE, cause |-> "none", edge_count |-> edge_count,
                  times_index |-> [i \in 1..TableSlots |-> Int32ulParse(b, 4 * i)],
                  edge_pairs |-> [i \in 1..n |-> EdgePairParse(b[4 + 4 * TableSlots + i])]]

\* ------------------------------------------------------------------------
\* base64
\* ------------------------------------------------------------------------
B64Alphabet ==
    <<"A", "B", "C", "D", "E", "F", "G", "H", "I", "J", "K", "L", "M",
      "N", "O", "P", "Q", "R", "S", "T", "U", "V", "W", "X", "Y", "Z",
      "a", "b", "c", "d", "e", "f", "g", "h", "i", "j", "k", "l", "m",
      "n", "o", "p", "q", "r", "s", "t", "u", "v", "w", "x", "y", "z",
      "0", "1", "2", "3", "4", "5", "6", "7", "8", "9", "+", "/">>

B64Char(v) == B64Alphabet[v + 1]

B64Val(c) == CHOOSE v \in 0..63 : B64Alphabet[v + 1] = c

RECURSIVE B64EncodeAt(_, _)
B64EncodeAt(b, i) ==
    IF i > Len(b) THEN << >>
    ELSE IF i + 2 <= Len(b)
         THEN << B64Char(b[i] \div 4),
                 B64Char((b[i] % 4) * 16 + b[i + 1] \div 16),
                 B64Char((b[i + 1] % 16) * 4 + b[i + 2] \div 64),
                 B64Char(b[i + 2] % 64) >> \o B64EncodeAt(b, i + 3)
    ELSE IF i + 1 <= Len(b)
         THEN << B64Char(b[i] \div 4),
                 B64Char((b[i] % 4) * 16 + b[i + 1] \div 16),
                 B64Char((b[i + 1] % 16) * 4), "=" >>
    ELSE << B64Char(b[i] \div 4), B64Char((b[i] % 4) * 16), "=", "=" >>

\* base64.b64encode(...).decode()
B64Encode(b) == B64EncodeAt(b, 1)

RECURSIVE B64DecodeAt(_, _)
B64DecodeAt(t, i) ==
    IF i > Len(t) THEN << >>
    ELSE LET a == B64Val(t[i])
             c == B64Val(t[i + 1])
         IN IF t[i + 2] = "=" THEN << a * 4 + c \div 16 >>
            ELSE IF t[i + 3] = "="
                 THEN << a * 4 + c \div 16, (c % 16) * 16 + B64Val(t[i + 2]) \div 4 >>
            ELSE << a * 4 + c \div 16,
                    (c % 16) * 16 + B64Val(t[i + 2]) \div 4,
                    (B64Val(t[i + 2]) % 4) * 64 + B64Val(t[i + 3]) >>
                 \o B64DecodeAt(t, i + 4)

\* the receiver's base64 decoding of the returned string
B64Decode(t) == B64DecodeAt(t, 1)

\* ------------------------------------------------------------------------
\* ChuangmiIr.pronto_to_raw, statement by statement
\* ------------------------------------------------------------------------
\* a check that lets -1 through
RepeatsInvalidBelowMinusOne(r) == r < -1

\* if repeats < 0
RepeatsInvalid(r) == r < 0

\* no increment for an empty intro
EffectiveRepeatsUnbumped(intro, r) == r

\* if len(intro_pairs) == 0: repeats += 1
EffectiveRepeats(intro, r) == IF Len(intro) = 0 THEN r + 1 ELSE r

\* intro_pairs + repeat_pairs * (1 if repeats else 0)
ScanPairs(intro, repeat, r) == intro \o Rep(repeat, IF r # 0 THEN 1 ELSE 0)

\* the transmitted list built with the multiplier of the scan
TransmitPairsOnce(intro, repeat, r) == intro \o Rep(repeat, IF r # 0 THEN 1 ELSE 0)

\* intro_pairs + repeat_pairs * repeats
TransmitPairs(intro, repeat, r) == intro \o Rep(repeat, r)

\* times.add(pair.pulse); times.add(pair.gap)
TimeSet(pairs) == {pairs[i].pulse : i \in 1..Len(pairs)}
                  \cup {pairs[i].gap : i \in 1..Len(pairs)}

\* sorted(times)
RECURSIVE Sorted(_)
Sorted(S) ==
    IF S = {} THEN << >>
    ELSE LET m == CHOOSE x \in S : \A y \in S : x <= y
         IN <<m>> \o Sorted(S \ {m})

\* times_map = {t: idx for idx, t in enumerate(times)}; times_map[t]
TimesMap(ts, t) == CHOOSE idx \in 0..(Len(ts) - 1) : ts[idx + 1] = t

\* times + [0] * (16 - len(times))
PaddedTimes(ts) == ts \o Rep(<<0>>, TableSlots - Len(ts))

VARIABLES inp, pronto, repeats, pc, intro_pairs, repeat_pairs, frequency,
          times, edge_pairs, signal_code, error, blob_in, decoded

vars == <<inp, pronto, repeats, pc, intro_pairs, repeat_pairs, frequency,
          times, edge_pairs, signal_code, error, blob_in, decoded>>

Init ==
    /\ inp \in Inputs
    /\ pronto = ProntoText(inp)
    /\ repeats = inp.repeats
    /\ pc = "check_repeats"
    /\ intro_pairs = << >>
    /\ repeat_pairs = << >>
    /\ frequency = -1
    /\ times = << >>
    /\ edge_pairs = << >>
    /\ signal_code = << >>
    /\ error = NoError
    /\ blob_in = << >>
    /\ decoded = SignalFail("none")

\* lines 103-104
CheckRepeats ==
    /\ pc = "check_repeats"
    /\ IF RepeatsInvalid(repeats)
       THEN /\ error' = Raise("ChuangmiIrException", "Invalid repeats value", "none")
            /\ pc' = "raised"
       ELSE /\ error' = error
            /\ pc' = "parse_pronto"
    /\ UNCHANGED <<inp, pronto, repeats, intro_pairs, repeat_pairs, frequency,
                   times, edge_pairs, signal_code, blob_in, decoded>>

\* line 106 and _parse_pronto
ParsePronto ==
    /\ pc = "parse_pronto"
    /\ LET hex == FromHex(pronto)
           pronto_data == IF hex.ok THEN ProntoParse(hex.bytes) ELSE ProntoFail("ValueError")
       IN IF pronto_data.ok
          THEN /\ intro_pairs' = pronto_data.intro
               /\ repeat_pairs' = pronto_data.repeat
               /\ frequency' = pronto_data.frequency
               /\ error' = error
               /\ pc' = "bump_repeats"
          ELSE /\ error' = Raise("ChuangmiIrException", "Invalid Pronto command",
                                 pronto_data.cause)
               /\ pc' = "raised"
               /\ UNCHANGED <<intro_pairs, repeat_pairs, frequency>>
    /\ UNCHANGED <<inp, pronto, repeats, times, edge_pairs, signal_code, blob_in, decoded>>

\* lines 108-109
BumpRepeats ==
    /\ pc = "bump_repeats"
    /\ repeats' = EffectiveRepeats(intro_pairs, repeats)
    /\ pc' = "scan_times"
    /\ UNCHANGED <<inp, pronto, intro_pairs, repeat_pairs, frequency, times,
                   edge_pairs, signal_code, error, blob_in, decoded>>

\* lines 111-117
ScanTimes ==
    /\ pc = "scan_times"
    /\ times' = Sorted(TimeSet(ScanPairs(intro_pairs, repeat_pairs, repeats)))
    /\ pc' = "map_edges"
    /\ UNCHANGED <<inp, pronto, repeats, intro_pairs, repeat_pairs, frequency,
                   edge_pairs, signal_code, error, blob_in, decoded>>

\* lines 118-123
MapEdges ==
    /\ pc = "map_edges"
    /\ edge_pairs' = LET tx == TransmitPairs(intro_pairs, repeat_pairs, repeats)
                     IN [i \in 1..Len(tx) |-> [pulse |-> TimesMap(times, tx[i].pulse),
                                               gap   |-> TimesMap(times, tx[i].gap)]]
    /\ pc' = "build_signal"
    /\ UNCHANGED <<inp, pronto, repeats, intro_pairs, repeat_pairs, frequency,
                   times, signal_code, error, blob_in, decoded>>

\* lines 125-130
BuildSignal ==
    /\ pc = "build_signal"
    /\ LET built == ChuangmiIrSignalBuild(PaddedTimes(times), edge_pairs)
       IN IF built.ok
          THEN /\ signal_code' = B64Encode(built.bytes)
               /\ error' = error
               /\ pc' = "returned"
          ELSE /\ error' = Raise(built.cause, "", "none")
               /\ signal_code' = signal_code
               /\ pc' = "raised"
    /\ UNCHANGED <<inp, pronto, repeats, intro_pairs, repeat_pairs, frequency,
                   times, edge_pairs, blob_in, decoded>>

\* the stored edge_count field of a blob overwritten
WithEdgeCount(b, ec) == SubSeq(b, 1, 2) \o Int16ulBuild(ec) \o SubSeq(b, 5, Len(b))

\* the returned string is decoded and parsed with ChuangmiIrSignal
ParseSignal ==
    /\ pc = "returned"
    /\ blob_in' = B64Decode(signal_code)
    /\ decoded' = ChuangmiIrSignalParse(blob_in')
    /\ pc' = "parsed"
    /\ UNCHANGED <<inp, pronto, repeats, intro_pairs, repeat_pairs, frequency,
                   times, edge_pairs, signal_code, error>>

\* a blob whose edge_count field was not written by the encoder is parsed
ParseBlob ==
    /\ pc = "returned"
    /\ \E ec \in 0..MaxStoredEdgeCount :
          blob_in' = WithEdgeCount(B64Decode(signal_code), ec)
    /\ decoded' = ChuangmiIrSignalParse(blob_in')
    /\ pc' = "parsed_blob"
    /\ UNCHANGED <<inp, pronto, repeats, intro_pairs, repeat_pairs, frequency,
                   times, edge_pairs, signal_code, error>>

Next ==
    \/ CheckRepeats
    \/ ParsePronto
    \/ BumpRepeats
    \/ ScanTimes
    \/ MapEdges
    \/ BuildSignal
    \/ ParseSignal
    \/ ParseBlob

Spec == Init /\ [][Next]_vars

TypeOK ==
    /\ pc \in {"check_repeats", "parse_pronto", "bump_repeats", "scan_times",
               "map_edges", "build_signal", "returned", "raised", "parsed",
               "parsed_blob"}
    /\ repeats \in -1..(MaxRepeats + 1)
    /\ frequency >= -1

\* ------------------------------------------------------------------------
\* Properties
\* ------------------------------------------------------------------------
\* _parse_pronto has returned its three values
Parsed == frequency # -1

\* the loop of lines 119-123 has run
EdgesMapped == \/ pc \in {"build_signal", "returned", "parsed", "parsed_blob"}
               \/ pc = "raised" /\ Parsed

\* ChuangmiIrSignal.build has been called
BuildCalled == \/ pc \in {"returned", "parsed", "parsed_blob"}
               \/ pc = "raised" /\ Parsed

HeaderBytes == 4 + 4 * TableSlots

\* durations an index pair sequence stands for in a table
Lookup(table, pairs) == [i \in 1..Len(pairs) |->
                           [pulse |-> table[pairs[i].pulse + 1],
                            gap   |-> table[pairs[i].gap + 1]]]

IndexSet(pairs) == {pairs[i].pulse : i \in 1..Len(pairs)}
                   \cup {pairs[i].gap : i \in 1..Len(pairs)}

\* C1: the blob pronto_to_raw returns, parsed with ChuangmiIrSignal, gives
\* by index lookup in times_index exactly the pulse and gap durations of
\* the transmitted burst-pair list, position by position; every index lies
\* in the filled part of the table and the filled slots are pairwise
\* different, so no two durations share an index.
C1_RoundTrip ==
    pc = "parsed" =>
        LET tx == TransmitPairs(intro_pairs, repeat_pairs, repeats)
            filled == Cardinality(TimeSet(tx))
        IN /\ decoded.ok
           /\ Lookup(decoded.times_index, decoded.edge_pairs) = tx
           /\ \A k \in IndexSet(decoded.edge_pairs) : k < filled
           /\ \A j, k \in 1..filled :
                 j # k => decoded.times_index[j] # decoded.times_index[k]

C1_Witness ==
    /\ pc = "parsed"
    /\ decoded.ok
    /\ Cardinality(TimeSet(intro_pairs \o repeat_pairs)) = TableSlots
    /\ inp.repeats = 2
    /\ Len(decoded.edge_pairs) = Len(intro_pairs) + 2 * Len(repeat_pairs)
    /\ Len(repeat_pairs) > 0

\* C2: the edge_count field stored in a blob pronto_to_raw returns equals
\* 2N-1 for the N edge pairs of the signal.
C2_EdgeCountOnEncode ==
    pc = "returned" =>
        /\ Len(edge_pairs) >= 1
        /\ Int16ulParse(B64Decode(signal_code), 2) = 2 * Len(edge_pairs) - 1
        /\ Len(B64Decode(signal_code)) = HeaderBytes + Len(edge_pairs)

C2_Witness ==
    /\ pc = "returned"
    /\ Len(edge_pairs) >= 3
    /\ Int16ulParse(B64Decode(signal_code), 2) = 2 * Len(edge_pairs) - 1

\* C3: ChuangmiIrSignal decodes no blob whose stored edge_count differs
\* from 2N-1 for the N edge pairs the blob carries.
C3_DecodeValidatesEdgeCount ==
    (pc \in {"parsed", "parsed_blob"} /\ decoded.ok) =>
        decoded.edge_count = 2 * (Len(blob_in) - HeaderBytes) - 1

\* C4: a signal whose scan holds exactly 16 distinct durations is encoded,
\* and one with 17 or more fails with the codec's capacity error and gives
\* no payload.
C4_CapacityBoundary ==
    BuildCalled =>
        LET distinct == Cardinality(TimeSet(ScanPairs(intro_pairs, repeat_pairs, repeats)))
        IN /\ distinct = TableSlots => pc # "raised"
           /\ distinct > TableSlots =>
                 /\ pc = "raised"
                 /\ error.type = "ChuangmiIrException"
                 /\ signal_code = << >>

\* C5: with zero intro pairs the repeat count is incremented, so the edge
\* pairs stand for repeats+1 copies of the repeat pattern (one copy for
\* repeats = 0), and the repeat pattern's durations are in the time table.
C5_EmptyIntro ==
    (EdgesMapped /\ Len(intro_pairs) = 0) =>
        /\ repeats = inp.repeats + 1
        /\ Lookup(times, edge_pairs) = Rep(repeat_pairs, inp.repeats + 1)
        /\ TimeSet(repeat_pairs) \subseteq Range(times)

C5_Witness ==
    /\ pc = "returned"
    /\ Len(intro_pairs) = 0
    /\ inp.repeats = 0
    /\ Len(repeat_pairs) >= 2
    /\ Lookup(times, edge_pairs) = repeat_pairs

\* C6: a negative repeats raises the validation error before the Pronto
\* text is parsed, for valid and invalid Pronto text, and gives no payload.
C6_NegativeRepeatsFirst ==
    inp.repeats < 0 =>
        /\ pc \in {"check_repeats", "raised"}
        /\ pc = "raised" =>
              error = Raise("ChuangmiIrException", "Invalid repeats value", "none")
        /\ ~Parsed
        /\ intro_pairs = << >> /\ repeat_pairs = << >>
        /\ signal_code = << >>

C6_Witness ==
    /\ inp.repeats < 0
    /\ pc = "raised"
    /\ inp.marker = 0 /\ inp.ticks = 109 /\ inp.form = "spaced" /\ inp.slack = 0
    /\ inp.intro_len > 0

\* C7 as amended: for carrier field 0x6D (109 ticks) the frequency
\* pronto_to_raw returns is 38029.
C7_Frequency109 ==
    (inp.ticks = 109 /\ Parsed) => frequency = 38029

C7_Witness ==
    /\ inp.ticks = 109
    /\ pc = "returned"
    /\ frequency = 38029

\* C7 as stated: for carrier field 0x6D the returned frequency is 38023.
C7_Frequency109_Stated ==
    (inp.ticks = 109 /\ Parsed) => frequency = 38023

\* C8: whenever pronto_to_raw returns no payload, the error reaching the
\* caller is ChuangmiIrException.
C8_FailuresTyped ==
    pc = "raised" => error.type = "ChuangmiIrException"

\* C9: a Pronto text whose first 16-bit field is not 0 is rejected with the
\* format error whatever the other fields are; no pairs, frequency or
\* payload come out of it.
C9_MarkerRejected ==
    inp.marker # 0 =>
        /\ pc \in {"check_repeats", "parse_pronto", "raised"}
        /\ ~Parsed
        /\ intro_pairs = << >> /\ repeat_pairs = << >>
        /\ signal_code = << >>
        /\ (pc = "raised" /\ inp.repeats >= 0) =>
              /\ error.type = "ChuangmiIrException"
              /\ error.msg = "Invalid Pronto command"
              /\ inp.form # "nonhex" => error.cause = "ConstError"

C9_Witness ==
    /\ inp.marker = 256
    /\ inp.ticks = 109 /\ inp.form = "packed" /\ inp.slack = 0
    /\ inp.intro_len > 0
    /\ inp.repeats >= 0
    /\ pc = "raised"
    /\ error.cause = "ConstError"

\* the repeat count after line 109, from the caller's value
Effective == IF Len(intro_pairs) = 0 THEN inp.repeats + 1 ELSE inp.repeats

Ascending(ts) == \A j, k \in 1..Len(ts) : j < k => ts[j] < ts[k]

\* C10 as amended: the transmitted pair list is intro ++ repeat x e and
\* the values scanned for the time table are those of
\* intro ++ repeat x (1 if e > 0 else 0), where e is the caller's repeats,
\* plus one when there are no intro pairs.
C10_TransmittedList ==
    EdgesMapped =>
        /\ Lookup(times, edge_pairs) = intro_pairs \o Rep(repeat_pairs, Effective)
        /\ Range(times) = TimeSet(intro_pairs
                                  \o Rep(repeat_pairs, IF Effective > 0 THEN 1 ELSE 0))
        /\ Ascending(times)

C10_Witness ==
    /\ pc = "returned"
    /\ Len(intro_pairs) = 0
    /\ inp.repeats = 1
    /\ Len(repeat_pairs) > 0
    /\ Len(edge_pairs) = 2 * Len(repeat_pairs)

\* C10 as stated: the transmitted pair list is intro ++ repeat x repeats
\* with the caller's original repeats, and the values scanned are those of
\* intro ++ repeat x (1 if repeats > 0 else 0).
C10_TransmittedList_Stated ==
    EdgesMapped =>
        /\ Lookup(times, edge_pairs) = intro_pairs \o Rep(repeat_pairs, inp.repeats)
        /\ Range(times) = TimeSet(intro_pairs
                                  \o Rep(repeat_pairs, IF inp.repeats > 0 THEN 1 ELSE 0))

====
